---------------------------- MODULE Spec2Model ----------------------------
(***************************************************************************)
(* bevy_snake (src/src/main.rs): the snake simulation as a state machine.  *)
(*                                                                         *)
(* The world is the ECS component store (Position, SnakeHead, SnakeSegment *)
(* and Food components keyed by entity id), the resources SnakeSegments    *)
(* and LastTailPosition, the two event queues, and each system's deferred  *)
(* command queue.  One action models one system of main(); the scheduler   *)
(* (frames, run criteria, stage passes, command application, the event     *)
(* double buffer) is the engine's, modelled as main() configures it.       *)
(*                                                                         *)
(* Engine behaviour the model relies on (Bevy 0.8, the API main.rs uses):  *)
(*  - systems of a stage run in any order that respects the declared       *)
(*    .before/.after constraints;                                          *)
(*  - Commands (spawn, despawn) are queued and applied once every system   *)
(*    of the pass has run; component and resource writes are immediate;    *)
(*  - a FixedTimestep criterion adds the frame's delta to its accumulator  *)
(*    at the first pass of a frame and takes one step off it per pass      *)
(*    while a step is due; the stage loops while a criterion has a step    *)
(*    due, and only the systems under such a criterion run in the passes   *)
(*    after the first;                                                     *)
(*  - Events<T> is double buffered and rotated once per frame; an          *)
(*    EventReader yields the events it has not yet seen, oldest first, and *)
(*    marks an event seen when the iterator yields it;                     *)
(*  - an Entity is kept as its index: a spawn takes the lowest index that  *)
(*    no live or reserved entity has.                                      *)
(*                                                                         *)
(* The two FixedTimestep criteria are fed by the same frame clock: time is  *)
(* counted in twentieths of a second, in which both steps are whole.       *)
(***************************************************************************)
EXTENDS Integers, Sequences, FiniteSets, TLC

\* ------------------------------------------------------------ constants

ARENA_WIDTH == 10
ARENA_HEIGHT == 10

\* FixedTimestep::step(0.150) and FixedTimestep::step(1.0), in twentieths of a
\* second.
MovementStep == 3
FoodStep == 20

\* Total number of passes of the Update stage's system loop that are explored.
MaxPasses == 8

\* The frame deltas the runs are sampled at, in twentieths of a second: a
\* short frame and a frame that lags for almost a second.
FrameDeltas == {1, 19}

\* Passes and frame deltas of the longer runs, in which the snake is reset and
\* a Food appears before the reset snake's first tick.
MaxLapPasses == 11
LapDeltas == {1, 15}

\* The values the two random::<f32>() draws of food_spawner are sampled at, in
\* hundredths: the two ends of [0, 1) and one value for every column and row
\* in between, so that a Food can land on every cell of the arena.
RandomSamplesX == {0, 15, 25, 35, 45, 55, 65, 75, 85, 99}
RandomSamplesY == {0, 15, 25, 35, 45, 55, 65, 75, 85, 99}

Directions == {"Left", "Right", "Up", "Down"}

\* KeyCode::Left, Right, Down, Up: a pressed key is named by its direction.
DirectionKeys == {"Left", "Right", "Down", "Up"}

\* The pressed-key sets the player holds during a frame of the game.
KeyChoices == {{}, {"Left"}, {"Right"}, {"Down"}, {"Up"}, {"Left", "Down"}}

\* Option<T>: None, Some(v) and unwrap.
None == <<>>
Some(v) == <<v>>
unwrap(o) == o[1]

Pos(px, py) == [x |-> px, y |-> py]

Range(s) == {s[i] : i \in DOMAIN s}

\* The systems main() adds to CoreStage::Update.
EveryFrame == {"snake_movement_input", "game_over"}
MovementSet == {"snake_movement", "snake_eating", "snake_growth"}
FoodSet == {"food_spawner"}

\* system -> the systems it is declared to run after (.before / .after).
RunsAfter(s) ==
    CASE s = "snake_movement" -> {"snake_movement_input"}
      [] s = "snake_eating"   -> {"snake_movement"}
      [] s = "snake_growth"   -> {"snake_movement"}
      [] s = "game_over"      -> {"snake_movement"}
      [] OTHER                -> {}

\* ------------------------------------------------------- pure functions

opposite(d) ==
    CASE d = "Left"  -> "Right"
      [] d = "Right" -> "Left"
      [] d = "Up"    -> "Down"
      [] d = "Down"  -> "Up"

\* The match on head.direction: one unit step on one axis.
StepHead(p, d) ==
    CASE d = "Left"  -> Pos(p.x - 1, p.y)
      [] d = "Right" -> Pos(p.x + 1, p.y)
      [] d = "Down"  -> Pos(p.x, p.y - 1)
      [] d = "Up"    -> Pos(p.x, p.y + 1)

\* `v as u32 >= bound` for an i32 v: a negative v casts to at least 2^31.
GeAsU32(v, bound) == v < 0 \/ v >= bound

\* A faulty WrapHead: a coordinate that leaves the arena is clamped to the edge
\* it left by.
WrapHeadClamped(p) ==
    IF p.x < 0 THEN Pos(0, p.y)
    ELSE IF p.y < 0 THEN Pos(p.x, 0)
    ELSE IF GeAsU32(p.x, ARENA_WIDTH) THEN Pos(ARENA_WIDTH - 1, p.y)
    ELSE IF GeAsU32(p.y, ARENA_HEIGHT) THEN Pos(p.x, ARENA_HEIGHT - 1)
    ELSE p

\* A faulty WrapHead: a coordinate that falls below zero wraps to the arena's
\* size instead of its last cell.
WrapHeadOffByOne(p) ==
    IF p.x < 0 THEN Pos(ARENA_WIDTH, p.y)
    ELSE IF p.y < 0 THEN Pos(p.x, ARENA_HEIGHT)
    ELSE IF GeAsU32(p.x, ARENA_WIDTH) THEN Pos(0, p.y)
    ELSE IF GeAsU32(p.y, ARENA_HEIGHT) THEN Pos(p.x, 0)
    ELSE p

\* The else-if chain that wraps the stepped head position.
WrapHead(p) ==
    IF p.x < 0 THEN Pos(ARENA_WIDTH - 1, p.y)
    ELSE IF p.y < 0 THEN Pos(p.x, ARENA_HEIGHT - 1)
    ELSE IF GeAsU32(p.x, ARENA_WIDTH) THEN Pos(0, p.y)
    ELSE IF GeAsU32(p.y, ARENA_HEIGHT) THEN Pos(p.x, 0)
    ELSE p

MoveHead(p, d) == WrapHead(StepHead(p, d))

\* A faulty KeyboardDirection: the keys are tested in the order Up, Down,
\* Right, Left.
KeyboardDirectionUpFirst(pressed, current) ==
    IF "Up" \in pressed THEN "Up"
    ELSE IF "Down" \in pressed THEN "Down"
    ELSE IF "Right" \in pressed THEN "Right"
    ELSE IF "Left" \in pressed THEN "Left"
    ELSE current

\* The if / else-if chain over keyboard.pressed.
KeyboardDirection(pressed, current) ==
    IF "Left" \in pressed THEN "Left"
    ELSE IF "Right" \in pressed THEN "Right"
    ELSE IF "Down" \in pressed THEN "Down"
    ELSE IF "Up" \in pressed THEN "Up"
    ELSE current

\* head.direction after snake_movement_input.
ResolveDirection(pressed, current) ==
    IF KeyboardDirection(pressed, current) # opposite(current)
    THEN KeyboardDirection(pressed, current)
    ELSE current

\* (random::<f32>() * bound as f32) as i32, the sample r given in hundredths.
RandomCell(r, bound) == (r * bound) \div 100

\* ---------------------------------------------------------------- state

VARIABLES
    positions,          \* entity -> Position            (Query<&mut Position>)
    heads,              \* entity -> SnakeHead.direction (Query<&SnakeHead>)
    segment_entities,   \* entities tagged SnakeSegment
    food,               \* entities tagged Food
    segments,           \* SnakeSegments: Vec<Entity>
    last_tail_position, \* LastTailPosition: Option<Position>
    growth_events,      \* Events<GrowthEvent>, the events snake_growth has not seen
    game_over_events,   \* Events<GameOverEvent>, the events game_over has not seen
    keyboard,           \* Input<KeyCode>: the pressed direction keys
    spawn_queue,        \* queued spawn commands
    despawn_queue,      \* queued despawn commands
    phase,              \* "run" (in a pass), "applied" (its commands applied), "panic"
    should_run,         \* the systems selected for the current pass
    pending,            \* those of them that have not run yet
    move_acc,           \* FixedTimestep(0.150): accumulated time not yet stepped
    passes,             \* passes of the stage loop so far
    food_acc,           \* FixedTimestep(1.0): accumulated time not yet stepped
    tick,               \* movement ticks so far
    segment_positions,  \* snake_movement's snapshot of the chain's positions
    tick_segments,      \* SnakeSegments as snake_movement found it
    tick_direction,     \* the direction the head stepped in, this tick
    prev_direction,     \* the direction it stepped in the tick before (None: no
                        \* earlier tick since the last reset)
    consumed            \* event reads of the current pass

world == <<positions, heads, segment_entities, food>>
resources == <<segments, last_tail_position, growth_events, game_over_events, keyboard>>
queues == <<spawn_queue, despawn_queue>>
sched == <<phase, should_run, pending, move_acc, passes, food_acc>>
history == <<tick, segment_positions, tick_segments, tick_direction, prev_direction, consumed>>
vars == <<world, resources, queues, sched, history>>


\* --------------------------------------------------------------- engine

\* Events<T>: buffer a holds the events sent in the frame before, b those sent
\* in this frame; each event is kept as the movement tick that sent it.  Only
\* the events the (single) reader has not yet seen are kept.
NoEvents == [a |-> <<>>, b |-> <<>>]

\* EventWriter::send.
EventsSend(ev, stamp) == [ev EXCEPT !.b = Append(@, stamp)]

\* Events::update_system, once per frame: b becomes a, what was in a is dropped.
EventsUpdate(ev) == [a |-> ev.b, b |-> <<>>]

Unread(ev) == ev.a \o ev.b

\* reader.iter().next(): the oldest unseen event, if any ...
ReaderNext(ev) == IF Unread(ev) = <<>> THEN None ELSE Some(Head(Unread(ev)))

\* ... which the reader has then seen; the events behind it stay unseen.
ReaderAdvance(ev) ==
    IF ev.a # <<>> THEN [ev EXCEPT !.a = Tail(@)]
    ELSE IF ev.b # <<>> THEN [ev EXCEPT !.b = Tail(@)]
    ELSE ev

\* Entity ids in use: live entities and ids reserved by queued spawns.
UsedIds(pos, queue) == DOMAIN pos \cup {c.id : c \in queue}

\* Commands::spawn_bundle reserves an id no live or reserved entity has.
NewEntity(pos, queue) ==
    CHOOSE n \in 1..(Cardinality(UsedIds(pos, queue)) + 1) :
        /\ n \notin UsedIds(pos, queue)
        /\ \A m \in 1..(n - 1) : m \in UsedIds(pos, queue)

\* A queued spawn: the entity's id and the components inserted on it.
SpawnCmd(e, p, head, isSegment, isFood) ==
    [id |-> e, position |-> p, head |-> head, segment |-> isSegment, food |-> isFood]

\* A faulty spawn_segment: the entity gets its Position but no SnakeSegment tag.
SpawnSegmentCmdUntagged(e, p) == SpawnCmd(e, p, None, FALSE, FALSE)

\* spawn_segment: a SnakeSegment with a Position.
SpawnSegmentCmd(e, p) == SpawnCmd(e, p, None, TRUE, FALSE)

\* spawn_snake: the head (SnakeHead Up, SnakeSegment, (3,3)) and one segment at
\* (3,2); SnakeSegments becomes [head, segment].
SpawnSnakeCmds(h, b) ==
    {SpawnCmd(h, Pos(3, 3), Some("Up"), TRUE, FALSE), SpawnSegmentCmd(b, Pos(3, 2))}

\* The component store after the queued commands are applied.
AppliedPositions(pos, spawns, despawns) ==
    [e \in (DOMAIN pos \ despawns) \cup {c.id : c \in spawns} |->
        IF \E c \in spawns : c.id = e
        THEN (CHOOSE c \in spawns : c.id = e).position
        ELSE pos[e]]

AppliedHeads(hd, spawns, despawns) ==
    [e \in (DOMAIN hd \ despawns) \cup {c.id : c \in {d \in spawns : d.head # None}} |->
        IF \E c \in spawns : c.id = e
        THEN unwrap((CHOOSE c \in spawns : c.id = e).head)
        ELSE hd[e]]

AppliedSegmentTags(tags, spawns, despawns) ==
    (tags \ despawns) \cup {c.id : c \in {d \in spawns : d.segment}}

AppliedFoodTags(tags, spawns, despawns) ==
    (tags \ despawns) \cup {c.id : c \in {d \in spawns : d.food}}

EmptyMap == [e \in {} |-> 0]

\* ----------------------------------------------------------------- Init

\* The state after the startup stage: spawn_snake has run on the empty world
\* and its commands have been applied.
Init ==
    /\ positions = AppliedPositions(EmptyMap, SpawnSnakeCmds(1, 2), {})
    /\ heads = AppliedHeads(EmptyMap, SpawnSnakeCmds(1, 2), {})
    /\ segment_entities = AppliedSegmentTags({}, SpawnSnakeCmds(1, 2), {})
    /\ food = {}
    /\ segments = <<1, 2>>
    /\ last_tail_position = None
    /\ growth_events = NoEvents
    /\ game_over_events = NoEvents
    /\ keyboard = {}
    /\ spawn_queue = {}
    /\ despawn_queue = {}
    /\ phase = "applied"
    /\ should_run = {}
    /\ pending = {}
    /\ move_acc = 0
    /\ passes = 0
    /\ food_acc = 0
    /\ tick = 0
    /\ segment_positions = <<>>
    /\ tick_segments = <<>>
    /\ tick_direction = None
    /\ prev_direction = None
    /\ consumed = {}

\* ------------------------------------------------------------ scheduler

\* FixedTimestep's criterion: a step is due when the accumulator holds one.
StepDue(acc, step) == acc >= step

\* The accumulator after the criterion has answered: a due step is taken off.
Stepped(acc, step) == IF StepDue(acc, step) THEN acc - step ELSE acc

\* The systems whose criterion has a step due.
Looped(moveFires, foodFires) ==
    (IF moveFires THEN MovementSet ELSE {}) \cup (IF foodFires THEN FoodSet ELSE {})

\* The systems of the first pass of a frame: the per-frame systems and every
\* set whose criterion has a step due.
Selected(moveFires, foodFires) == EveryFrame \cup Looped(moveFires, foodFires)

\* s is selected, has not run, and everything it must run after has run.
CanRun(s) ==
    /\ phase = "run"
    /\ s \in pending
    /\ RunsAfter(s) \cap pending = {}

\* s has run.
Finish(s) ==
    /\ pending' = pending \ {s}
    /\ UNCHANGED <<phase, should_run, move_acc, passes, food_acc>>

\* s has panicked (an unwrap of None): the app stops.
Panic ==
    /\ phase' = "panic"
    /\ UNCHANGED <<should_run, pending, move_acc, passes, food_acc>>

\* A frame starts: the event buffers rotate (CoreStage::First), the keyboard
\* state is polled (PreUpdate) and both criteria add the frame's delta d to
\* their accumulators.
Frame(pressed, d) ==
    /\ phase = "applied"
    /\ ~StepDue(move_acc, MovementStep)
    /\ ~StepDue(food_acc, FoodStep)
    /\ keyboard' = pressed
    /\ should_run' = Selected(StepDue(move_acc + d, MovementStep), StepDue(food_acc + d, FoodStep))
    /\ pending' = Selected(StepDue(move_acc + d, MovementStep), StepDue(food_acc + d, FoodStep))
    /\ move_acc' = Stepped(move_acc + d, MovementStep)
    /\ food_acc' = Stepped(food_acc + d, FoodStep)
    /\ growth_events' = EventsUpdate(growth_events)
    /\ game_over_events' = EventsUpdate(game_over_events)
    /\ phase' = "run"
    /\ passes' = passes + 1
    /\ consumed' = {}
    /\ UNCHANGED <<world, segments, last_tail_position, queues>>
    /\ UNCHANGED <<tick, segment_positions, tick_segments, tick_direction, prev_direction>>

\* Any frame, within the explored number of passes.
BeginFrame ==
    /\ passes < MaxPasses
    /\ \E pressed \in KeyChoices, d \in FrameDeltas : Frame(pressed, d)

\* A frame that lags for a whole second, no key held.
LagFrame ==
    /\ passes < MaxPasses
    /\ Frame({}, FoodStep)

\* Every system of the pass has run: the queued commands are applied.
ApplyBuffers ==
    /\ phase = "run"
    /\ pending = {}
    /\ positions' = AppliedPositions(positions, spawn_queue, despawn_queue)
    /\ heads' = AppliedHeads(heads, spawn_queue, despawn_queue)
    /\ segment_entities' = AppliedSegmentTags(segment_entities, spawn_queue, despawn_queue)
    /\ food' = AppliedFoodTags(food, spawn_queue, despawn_queue)
    /\ spawn_queue' = {}
    /\ despawn_queue' = {}
    /\ phase' = "applied"
    /\ UNCHANGED <<resources, should_run, pending, move_acc, passes, food_acc, history>>

\* The criteria are checked again and a step is still due: the stage loops,
\* and only the systems under a criterion with a due step run.
LoopAgain ==
    /\ phase = "applied"
    /\ StepDue(move_acc, MovementStep) \/ StepDue(food_acc, FoodStep)
    /\ should_run' = Looped(StepDue(move_acc, MovementStep), StepDue(food_acc, FoodStep))
    /\ pending' = Looped(StepDue(move_acc, MovementStep), StepDue(food_acc, FoodStep))
    /\ move_acc' = Stepped(move_acc, MovementStep)
    /\ food_acc' = Stepped(food_acc, FoodStep)
    /\ phase' = "run"
    /\ passes' = passes + 1
    /\ consumed' = {}
    /\ UNCHANGED <<world, resources, queues>>
    /\ UNCHANGED <<tick, segment_positions, tick_segments, tick_direction, prev_direction>>

\* Another pass, within the explored number of passes.
NextPass ==
    /\ passes < MaxPasses
    /\ LoopAgain

\* The same two steps of the engine in the longer runs.
LapFrame ==
    /\ passes < MaxLapPasses
    /\ \E pressed \in KeyChoices, d \in LapDeltas : Frame(pressed, d)

LapPass ==
    /\ passes < MaxLapPasses
    /\ LoopAgain

\* -------------------------------------------------------------- systems

snake_movement_input ==
    /\ CanRun("snake_movement_input")
    /\ IF DOMAIN heads = {}
       THEN UNCHANGED heads
       ELSE \E head \in DOMAIN heads :
                heads' = [heads EXCEPT ![head] = ResolveDirection(keyboard, heads[head])]
    /\ Finish("snake_movement_input")
    /\ UNCHANGED <<positions, segment_entities, food, resources, queues, history>>

\* segment_positions: the chain's positions before anything moves.
Snapshot(pos, segs) == [i \in DOMAIN segs |-> pos[segs[i]]]

\* A faulty Collides: the cell the tail is about to leave is not looked at.
CollidesExceptTail(snap, head_pos) ==
    head_pos \in Range(SubSeq(snap, 1, Len(snap) - 1))

\* segment_positions.contains(&head_pos)
Collides(snap, head_pos) == head_pos \in Range(snap)

\* A faulty ShiftedPositions: the chain is updated in place from the head on,
\* each segment reading the already-updated position of the one before it.
ShiftedInPlace(pos, segs, snap, head_entity, head_pos) ==
    [e \in DOMAIN pos |->
        IF e = head_entity \/ \E i \in 2..Len(segs) : segs[i] = e
        THEN head_pos
        ELSE pos[e]]

\* The head takes head_pos; then segment_positions.zip(segments.skip(1)) gives
\* each later segment the snapshot position of the one before it.
ShiftedPositions(pos, segs, snap, head_entity, head_pos) ==
    [e \in DOMAIN pos |->
        IF \E i \in 2..Len(segs) : segs[i] = e
        THEN snap[(CHOOSE i \in 2..Len(segs) :
                     segs[i] = e /\ \A j \in 2..Len(segs) : segs[j] = e => j <= i) - 1]
        ELSE IF e = head_entity THEN head_pos
        ELSE pos[e]]

\* A faulty LastOf: the snapshot's first two entries are skipped before the last
\* one is taken.
LastOfSkipped(snap) == IF Len(snap) <= 2 THEN None ELSE Some(snap[Len(snap)])

\* segment_positions.iter().last().copied()
LastOf(snap) == IF snap = <<>> THEN None ELSE Some(snap[Len(snap)])

snake_movement ==
    /\ CanRun("snake_movement")
    /\ IF DOMAIN heads = {}
       THEN /\ Finish("snake_movement")
            /\ UNCHANGED <<positions, game_over_events, last_tail_position>>
            /\ UNCHANGED <<tick, segment_positions, tick_segments, tick_direction, prev_direction>>
       ELSE \E head_entity \in DOMAIN heads :
            IF \E i \in DOMAIN segments : segments[i] \notin DOMAIN positions
            THEN /\ Panic
                 /\ UNCHANGED <<positions, game_over_events, last_tail_position>>
                 /\ UNCHANGED <<tick, segment_positions, tick_segments, tick_direction, prev_direction>>
            ELSE LET snap == Snapshot(positions, segments)
                     head_pos == MoveHead(positions[head_entity], heads[head_entity])
                 IN /\ positions' = ShiftedPositions(positions, segments, snap, head_entity, head_pos)
                    /\ game_over_events' = IF Collides(snap, head_pos)
                                           THEN EventsSend(game_over_events, tick + 1)
                                           ELSE game_over_events
                    /\ last_tail_position' = LastOf(snap)
                    /\ tick' = tick + 1
                    /\ segment_positions' = snap
                    /\ tick_segments' = segments
                    /\ tick_direction' = Some(heads[head_entity])
                    /\ prev_direction' = tick_direction
                    /\ Finish("snake_movement")
    /\ UNCHANGED <<heads, segment_entities, food, segments, growth_events, keyboard, queues, consumed>>

\* The Food entities on the head's cell.
Eaten(pos, foods, head_entity) == {f \in foods : pos[f] = pos[head_entity]}

snake_eating ==
    /\ CanRun("snake_eating")
    /\ IF DOMAIN heads = {}
       THEN UNCHANGED <<despawn_queue, growth_events>>
       ELSE \E head_entity \in DOMAIN heads :
            /\ despawn_queue' = despawn_queue \cup Eaten(positions, food, head_entity)
            /\ growth_events' =
                 [growth_events EXCEPT
                    !.b = @ \o [i \in 1..Cardinality(Eaten(positions, food, head_entity)) |-> tick]]
    /\ Finish("snake_eating")
    /\ UNCHANGED <<world, segments, last_tail_position, game_over_events, keyboard, spawn_queue, history>>

\* An event read: which event, the tick that sent it, the tick it is read in.
Read(name, ev) == [event |-> name, sent |-> unwrap(ReaderNext(ev)), read |-> tick]

snake_growth ==
    /\ CanRun("snake_growth")
    /\ IF ReaderNext(growth_events) # None
       THEN /\ growth_events' = ReaderAdvance(growth_events)
            /\ consumed' = consumed \cup {Read("GrowthEvent", growth_events)}
            /\ IF last_tail_position = None
               THEN Panic /\ UNCHANGED <<spawn_queue, segments>>
               ELSE /\ spawn_queue' = spawn_queue \cup
                        {SpawnSegmentCmd(NewEntity(positions, spawn_queue), unwrap(last_tail_position))}
                    /\ segments' = Append(segments, NewEntity(positions, spawn_queue))
                    /\ Finish("snake_growth")
       ELSE /\ UNCHANGED <<growth_events, consumed, spawn_queue, segments>>
            /\ Finish("snake_growth")
    /\ UNCHANGED <<world, last_tail_position, game_over_events, keyboard, despawn_queue>>
    /\ UNCHANGED <<tick, segment_positions, tick_segments, tick_direction, prev_direction>>

food_spawner ==
    /\ CanRun("food_spawner")
    /\ \E rx \in RandomSamplesX, ry \in RandomSamplesY :
        spawn_queue' = spawn_queue \cup
            {SpawnCmd(NewEntity(positions, spawn_queue),
                      Pos(RandomCell(rx, ARENA_WIDTH), RandomCell(ry, ARENA_HEIGHT)),
                      None, FALSE, TRUE)}
    /\ Finish("food_spawner")
    /\ UNCHANGED <<world, resources, despawn_queue, history>>

\* The two ids spawn_snake reserves: the head's, then the segment's.
HeadId(pos, queue) == NewEntity(pos, queue)
BodyId(pos, queue) ==
    NewEntity(pos, queue \cup {SpawnCmd(HeadId(pos, queue), Pos(3, 3), Some("Up"), TRUE, FALSE)})

\* A faulty reset that despawns the Food entities only.
ResetDespawnsFoodOnly(foods, tagged) == foods

\* game_over's two loops: every Food entity and every SnakeSegment entity its
\* queries see is despawned.
ResetDespawns(foods, tagged) == foods \cup tagged

game_over ==
    /\ CanRun("game_over")
    /\ IF ReaderNext(game_over_events) # None
       THEN /\ game_over_events' = ReaderAdvance(game_over_events)
            /\ consumed' = consumed \cup {Read("GameOverEvent", game_over_events)}
            /\ despawn_queue' = despawn_queue \cup ResetDespawns(food, segment_entities)
            /\ spawn_queue' = spawn_queue \cup
                 SpawnSnakeCmds(HeadId(positions, spawn_queue), BodyId(positions, spawn_queue))
            /\ segments' = <<HeadId(positions, spawn_queue), BodyId(positions, spawn_queue)>>
            /\ tick_direction' = None
       ELSE UNCHANGED <<game_over_events, consumed, queues, segments, tick_direction>>
    /\ Finish("game_over")
    /\ UNCHANGED <<world, last_tail_position, growth_events, keyboard>>
    /\ UNCHANGED <<tick, segment_positions, tick_segments, prev_direction>>

Next ==
    \/ BeginFrame
    \/ ApplyBuffers
    \/ NextPass
    \/ snake_movement_input
    \/ snake_movement
    \/ snake_eating
    \/ snake_growth
    \/ food_spawner
    \/ game_over

Spec == Init /\ [][Next]_vars

\* ------------------------------------------- single-system specifications

\* The scheduler state of a pass in which exactly the systems S are to run.
About(S) ==
    /\ phase = "run"
    /\ should_run = S
    /\ pending = S
    /\ move_acc = 0
    /\ passes = 1
    /\ food_acc = 0

\* The state outside the component store and the scheduler, as after startup.
Quiet ==
    /\ food = {}
    /\ segment_entities = {1, 2}
    /\ segments = <<1, 2>>
    /\ growth_events = NoEvents
    /\ game_over_events = NoEvents
    /\ spawn_queue = {}
    /\ despawn_queue = {}
    /\ tick = 0
    /\ segment_positions = <<>>
    /\ tick_segments = <<>>
    /\ tick_direction = None
    /\ prev_direction = None
    /\ consumed = {}

\* snake_movement on a two-segment snake that has been running straight: its
\* head on any cell of the arena, heading any way, its segment on the cell
\* behind it, the tail position last recorded the cell behind that.
InitWrap ==
    /\ \E hx \in 0..(ARENA_WIDTH - 1), hy \in 0..(ARENA_HEIGHT - 1), d \in Directions :
        /\ heads = (1 :> d)
        /\ positions = (1 :> Pos(hx, hy)) @@ (2 :> MoveHead(Pos(hx, hy), opposite(d)))
        /\ last_tail_position =
              Some(MoveHead(MoveHead(Pos(hx, hy), opposite(d)), opposite(d)))
    /\ keyboard = {}
    /\ Quiet
    /\ About({"snake_movement"})

SpecWrap == InitWrap /\ [][snake_movement]_vars

\* The game left alone from startup: no key is held and every frame lags for
\* a whole second.
NextFood ==
    \/ LagFrame
    \/ ApplyBuffers
    \/ NextPass
    \/ snake_movement_input
    \/ snake_movement
    \/ snake_eating
    \/ snake_growth
    \/ food_spawner
    \/ game_over

SpecFood == Init /\ [][NextFood]_vars

\* The game from startup over the longer runs.
NextLap ==
    \/ LapFrame
    \/ ApplyBuffers
    \/ LapPass
    \/ snake_movement_input
    \/ snake_movement
    \/ snake_eating
    \/ snake_growth
    \/ food_spawner
    \/ game_over

SpecLap == Init /\ [][NextLap]_vars

\* snake_movement_input, then snake_movement, on the startup snake before its
\* first tick, for every head direction (each is reached by key presses in
\* earlier frames) and every set of pressed direction keys.
InitInput ==
    /\ \E d \in Directions : heads = (1 :> d)
    /\ last_tail_position = None
    /\ positions = (1 :> Pos(3, 3)) @@ (2 :> Pos(3, 2))
    /\ keyboard \in SUBSET DirectionKeys
    /\ Quiet
    /\ About({"snake_movement_input", "snake_movement"})

NextInput == snake_movement_input \/ snake_movement

SpecInput == InitInput /\ [][NextInput]_vars

\* --------------------------------------------------------------- claims

\* System s has run in the current pass.
HasRun(s) == s \in should_run \ pending

\* This step is a run of system s.
RunOf(s) == s \in pending /\ s \notin pending'

\* The unit step of a direction, per axis.
DX(d) == CASE d = "Left" -> -1 [] d = "Right" -> 1 [] OTHER -> 0
DY(d) == CASE d = "Down" -> -1 [] d = "Up" -> 1 [] OTHER -> 0

\* One cell from p in direction d on the torus: each axis taken modulo its bound.
TorusStep(p, d) == Pos((p.x + DX(d)) % ARENA_WIDTH, (p.y + DY(d)) % ARENA_HEIGHT)

\* A movement tick has just run: nothing that runs after it has run yet.
JustMoved ==
    /\ phase = "run"
    /\ HasRun("snake_movement")
    /\ {"snake_eating", "snake_growth"} \subseteq pending
    /\ "game_over" \in should_run => "game_over" \in pending

\* C1 (chain-follow): in every run of snake_movement on a chain of n >= 2
\* segments, the segment at index i >= 2 (1-based) ends on the cell the segment
\* at index i - 1 was on before the run, and the head ends one cell from where it
\* was, in its direction, wrapped around the arena.
C1_ChainFollow ==
    [][(RunOf("snake_movement") /\ Len(segments) >= 2) =>
         /\ \A i \in 2..Len(segments) :
                positions'[segments[i]] = positions[segments[i - 1]]
         /\ positions'[segments[1]] = TorusStep(positions[segments[1]], heads[segments[1]])
         /\ last_tail_position' = Some(positions[segments[Len(segments)]])]_vars

\* C1 witness: a tick has just moved a chain of three segments, each now on the
\* cell its predecessor left.
C1_Witness ==
    /\ JustMoved
    /\ Len(segments) = 3
    /\ \A i \in 2..3 : positions[segments[i]] = segment_positions[i - 1]
    /\ positions[segments[1]] # segment_positions[1]

\* C2 (wrap-around): for every head cell of the arena and every direction, the
\* head position snake_movement computes is the unit step taken modulo the
\* arena on each axis (so x = 0 going Left gives x = W - 1, and so on, the other
\* coordinate unchanged), which is also what wrapping each axis on its own gives.
WrapAxis(c, bound) == IF c < 0 THEN bound - 1 ELSE IF c >= bound THEN 0 ELSE c

C2_WrapAround ==
    [][RunOf("snake_movement") =>
         \A h \in DOMAIN heads :
            /\ positions'[h] = TorusStep(positions[h], heads[h])
            /\ positions'[h] = Pos(WrapAxis(positions[h].x + DX(heads[h]), ARENA_WIDTH),
                                   WrapAxis(positions[h].y + DY(heads[h]), ARENA_HEIGHT))]_vars

\* C2 witness: the head stepped Right off column W - 1 and is on column 0 of
\* the same row.
C2_Witness ==
    /\ HasRun("snake_movement")
    /\ tick_direction = Some("Right")
    /\ segment_positions[1] = Pos(ARENA_WIDTH - 1, 5)
    /\ positions[1] = Pos(0, 5)

\* C3 (self-collision detection): a run of snake_movement sends a GameOverEvent
\* exactly when the head's new cell is one of the cells the chain's segments
\* were on before the run, the head's own and the tail's included.
C3_CollisionDetected ==
    [][RunOf("snake_movement") =>
         \A h \in DOMAIN heads :
            (game_over_events' # game_over_events
                <=> \E i \in DOMAIN segments : positions'[h] = positions[segments[i]])]_vars

\* C3 witness: the head has just stepped onto the cell its tail was on, and
\* the GameOverEvent of this tick is in the queue.
C3_Witness ==
    /\ JustMoved
    /\ \E h \in DOMAIN heads : positions[h] = segment_positions[Len(segment_positions)]
    /\ game_over_events.b = <<tick>>

\* The commands of the pass have been applied (and the next pass has not begun).
PassDone == phase = "applied"

\* The pass held a movement tick.
Ticked == "snake_movement" \in should_run

\* An event of queue ev sent in the current tick: unseen, or read in this pass.
SentThisTick(name, ev) ==
    \/ tick \in Range(Unread(ev))
    \/ \E c \in consumed : c.event = name /\ c.sent = tick

\* The chain is the startup snake: two ids, the head at (3,3) heading Up and
\* one segment at (3,2).
FreshSnake ==
    /\ Len(segments) = 2
    /\ segments[1] \in DOMAIN heads
    /\ heads[segments[1]] = "Up"
    /\ segments[1] \in DOMAIN positions
    /\ positions[segments[1]] = Pos(3, 3)
    /\ segments[2] \in DOMAIN positions
    /\ positions[segments[2]] = Pos(3, 2)

\* C4 (self-collision triggers reset): when a GameOverEvent was sent in the
\* movement tick of a pass, then once the systems of that pass have run and
\* their commands are applied SnakeSegments is the startup snake, whatever else
\* happened in the tick.
C4_ResetAfterCollision ==
    (PassDone /\ Ticked /\ SentThisTick("GameOverEvent", game_over_events)) => FreshSnake

\* C5 (reset is full): once game_over has handled a GameOverEvent and the
\* commands of its pass are applied, no Food entity exists and the entities
\* tagged SnakeSegment are exactly the two of the new chain.
C5_ResetIsFull ==
    (PassDone /\ \E c \in consumed : c.event = "GameOverEvent") =>
        /\ food = {}
        /\ Len(segments) = 2
        /\ segment_entities = Range(segments)

\* C6 (growth): in every movement tick in which the head's new cell holds a
\* Food entity (snake_eating sends a GrowthEvent for it), SnakeSegments after
\* the tick's pass is the chain before the tick plus one new id at its end,
\* and the new segment is on the cell the tail was on before the tick.
C6_GrowthOnEating ==
    (PassDone /\ Ticked /\ SentThisTick("GrowthEvent", growth_events)) =>
        /\ Len(segments) = Len(tick_segments) + 1
        /\ SubSeq(segments, 1, Len(tick_segments)) = tick_segments
        /\ segments[Len(segments)] \in DOMAIN positions
        /\ positions[segments[Len(segments)]] = segment_positions[Len(segment_positions)]

\* C7 (system ordering): in every pass, input resolution has run before
\* movement runs, movement before eating, eating before growth, and movement
\* before game-over handling.
C7_SystemOrdering ==
    /\ (HasRun("snake_movement") /\ "snake_movement_input" \in should_run)
            => HasRun("snake_movement_input")
    /\ HasRun("snake_eating") => HasRun("snake_movement")
    /\ HasRun("snake_growth") => HasRun("snake_eating")
    /\ (HasRun("game_over") /\ "snake_movement" \in should_run)
            => HasRun("snake_movement")

\* C8 (signal lifetime): an event is read in the tick that sent it, and when
\* the pass of a movement tick is done no event is left unread.
C8_SignalLifetime ==
    /\ \A c \in consumed : c.sent = c.read
    /\ (PassDone /\ Ticked) =>
            Unread(growth_events) = <<>> /\ Unread(game_over_events) = <<>>

\* C9 (input resolution): snake_movement_input takes the first pressed key in
\* the order Left, Right, Down, Up as the candidate (the current direction when
\* none is pressed) and makes it the head's direction unless it is the opposite
\* of the current direction, which then stays.
Priority(d) == CASE d = "Left" -> 1 [] d = "Right" -> 2 [] d = "Down" -> 3 [] d = "Up" -> 4

Candidate(pressed, current) ==
    IF pressed = {} THEN current
    ELSE CHOOSE d \in pressed : \A e \in pressed : Priority(d) <= Priority(e)

Reverse(d) == CHOOSE e \in Directions : DX(e) = -DX(d) /\ DY(e) = -DY(d)

C9_InputResolution ==
    [][RunOf("snake_movement_input") =>
         \A h \in DOMAIN heads :
            heads'[h] = IF Candidate(keyboard, heads[h]) = Reverse(heads[h])
                        THEN heads[h]
                        ELSE Candidate(keyboard, heads[h])]_vars

\* C9 witness: with only Down pressed the input system has left the head
\* heading Up (a candidate other than the opposite would have replaced it).
C9_Witness ==
    /\ HasRun("snake_movement_input")
    /\ keyboard = {"Down"}
    /\ heads[1] = "Up"

\* C10 (no reversal across ticks): the direction the head steps in is never the
\* opposite of the direction it stepped in one movement tick earlier (no reset
\* in between).
C10_NoReversalAcrossTicks ==
    (tick_direction # None /\ prev_direction # None) =>
        unwrap(tick_direction) # opposite(unwrap(prev_direction))

\* ---------------------------------------------------------------------------
\* States between the systems of a pass and between passes.

\* Every system of the pass has run; its commands are still queued.
AllRan == phase = "run" /\ pending = {}

\* A movement tick can begin: snake_movement is the next step of its set.
MovementCanBegin == CanRun("snake_movement")

IsPrefix(a, b) == Len(a) <= Len(b) /\ SubSeq(b, 1, Len(a)) = a

OnGrid(p) == p.x >= 0 /\ p.x < ARENA_WIDTH /\ p.y >= 0 /\ p.y < ARENA_HEIGHT

\* C11: whenever a movement tick can begin, and between passes, SnakeSegments
\* has at least two entries, its first entry is the entity carrying SnakeHead,
\* and every entry is a live entity with a SnakeSegment tag and a Position.
C11_SegmentsInvariant ==
    (MovementCanBegin \/ PassDone) =>
        /\ Len(segments) >= 2
        /\ segments[1] \in DOMAIN heads
        /\ \A i \in DOMAIN segments :
              segments[i] \in DOMAIN positions /\ segments[i] \in segment_entities

\* A movement tick is about to begin on a snake that was respawned by a reset
\* and has grown since.
C11_Witness ==
    /\ MovementCanBegin
    /\ segments[1] # 1
    /\ Len(segments) = 3
    /\ \A i \in DOMAIN segments : segments[i] \in segment_entities

\* C12: exactly one entity carries SnakeHead, in every state.
C12_HeadSingleton == Cardinality(DOMAIN heads) = 1

\* The commands of a reset have just been applied: the old head is gone and
\* the head is a new entity.
C12_Witness ==
    /\ PassDone
    /\ \E c \in consumed : c.event = "GameOverEvent"
    /\ 1 \notin DOMAIN heads
    /\ Cardinality(DOMAIN heads) = 1

\* C13: the Position of every snake segment and of every Food is on the grid.
C13_OnGrid == \A e \in segment_entities \cup food : OnGrid(positions[e])

\* The head has left the arena on the left and re-entered on the right while a
\* Food is on the board.
C13_Witness ==
    /\ food # {}
    /\ tick_direction = Some("Left")
    /\ segment_positions # <<>>
    /\ segment_positions[1].x = 0
    /\ \E h \in DOMAIN heads : positions[h].x = ARENA_WIDTH - 1

\* C14: whenever snake_growth is about to read a GrowthEvent, LastTailPosition
\* holds a position, so the unwrap succeeds.
C14_GrowthNeverAborts ==
    /\ phase # "panic"
    /\ (CanRun("snake_growth") /\ ReaderNext(growth_events) # None) =>
            last_tail_position # None

\* snake_growth is about to read a GrowthEvent.
C14_Witness ==
    /\ CanRun("snake_growth")
    /\ ReaderNext(growth_events) # None
    /\ last_tail_position # None

\* The pass handled a GameOverEvent.
ResetHandled == \E c \in consumed : c.event = "GameOverEvent"

\* C15: at most one Food entity exists at a time.
C15_SingleFood == Cardinality(food) <= 1

\* C16: in every movement tick in which no GameOverEvent is handled, once all
\* systems of the pass have run, the chain before the tick is a prefix of
\* SnakeSegments and at most one id has been added; if no Food was eaten in
\* the tick, SnakeSegments is the chain before the tick and no Food entity is
\* queued for despawning.
C16_SegmentsNeverRemoved ==
    (AllRan /\ Ticked /\ ~ResetHandled) =>
        /\ IsPrefix(tick_segments, segments)
        /\ Len(segments) <= Len(tick_segments) + 1
        /\ ~SentThisTick("GrowthEvent", growth_events) =>
              /\ segments = tick_segments
              /\ food \cap despawn_queue = {}

\* C17: in every movement tick in which Food entities are on the head's new
\* cell and no GameOverEvent is handled, once all systems of the pass have
\* run, every Food on the head's cell is queued for despawning, SnakeSegments
\* has exactly one id more than before the tick, and no GrowthEvent is left
\* unread for a later tick.
C17_SeveralFoodsOneGrowth ==
    (AllRan /\ Ticked /\ ~ResetHandled /\ SentThisTick("GrowthEvent", growth_events)) =>
        /\ \A h \in DOMAIN heads : Eaten(positions, food, h) \subseteq despawn_queue
        /\ Len(segments) = Len(tick_segments) + 1
        /\ Unread(growth_events) = <<>>

TorusNeighbours(p, q) == \E d \in Directions : TorusStep(p, d) = q

\* C18: after a tick's pass, commands applied, the entities of SnakeSegments
\* are on pairwise distinct cells.
C18_NoOverlap ==
    (PassDone /\ tick >= 1) =>
        \A i, j \in DOMAIN segments :
            i # j => positions[segments[i]] # positions[segments[j]]

\* C19: after a tick's pass, commands applied, every two consecutive entries
\* of SnakeSegments are on cells one torus step apart.
C19_Contiguous ==
    (PassDone /\ tick >= 1) =>
        \A i \in 1..(Len(segments) - 1) :
            TorusNeighbours(positions[segments[i]], positions[segments[i + 1]])

=============================================================================
